---- MODULE Spec2Model ----
(***************************************************************************)
(* reeltube-cli: the upload command (main.go, uploadCmd), the concurrent   *)
(* multipart upload engine (multipartUpload) and the API client it calls   *)
(* (client.go: DoRequest, CreateMediaUpload, CompleteMultipartUpload).     *)
(*                                                                         *)
(* One behaviour is one run of `reeltube upload --file <filePath>`.  The   *)
(* coordinator (the goroutine running uploadCmd/multipartUpload) is        *)
(* followed by pc.  The workers are anonymous goroutines running the same  *)
(* closure, so the pool is the bag of their positions.                     *)
(***************************************************************************)
EXTENDS Integers, Sequences, FiniteSets, Bags, TLC

\* ------------------------------------------------------------------ bounds
MaxFileSize == 3   \* file sizes 0..MaxFileSize bytes
MaxPartSize == 2   \* part_size of a decoded response: 1..MaxPartSize
MaxParts == 3      \* num_parts and len(presigned_urls) of a decoded
                   \* response: 0..MaxParts each
MaxCPU == 2        \* runtime.NumCPU(): 1..MaxCPU
MaxSeconds == 2    \* the clock of SpecETA runs from 0 to MaxSeconds

\* ------------------------------------------------------- program constants
defaultConcurrency == 5
StatusOK == 200

\* --------------------------------------------------------------- the inputs
\* --file values: none, an allowed video type in upper case, a file type
\* that is not allowed.
Paths == {"", "clip.MP4", "notes.txt"}

\* HTTP statuses the control plane and the part targets answer with.
Statuses == {200, 204, 500}

\* Shape of a response body as encoding/json sees it: a JSON string, a JSON
\* object, or bytes that are not JSON.
Bodies == {"string", "object", "garbage"}

\* Values of the ETag response header: a quoted entity tag (valid JSON), or an
\* absent header ("" is not valid JSON).
ETags == {"\"a\"", ""}

VARIABLES
    filePath,     \* the --file flag
    fileSize,     \* size of the file at filePath
    numCPU,       \* runtime.NumCPU()
    pc,           \* position of the coordinator
    ext,          \* uploadCmd: ext
    exitCode,     \* -1 while running, else the process exit code
    stage,        \* what ended the run
    successMsg,   \* "File uploaded successfully" was printed
    concurrency,  \* multipartUpload: concurrency
    openResp,     \* response to the open-upload-session call
    partSize,     \* createMediaUploadResp.PartSize
    numParts,     \* createMediaUploadResp.NumParts
    nURLs,        \* len(createMediaUploadResp.PresignedURLs)
    jobs,         \* the jobs channel's buffer
    jobsClosed,   \* close(jobs) has run
    next,         \* the dispatch loop's i
    pool,         \* the worker goroutines: a bag of (position, partNum)
    parts,        \* the parts slice, indexed 0..nURLs-1
    errChan,      \* the errChan channel's buffer
    errs,         \* every error a worker has sent
    ranges,       \* per part index, <<offset, n>> of the bytes read for it
    putCount,     \* per part index, PUT requests sent
    putStatus,    \* per part index, status of the PUT response
    bar,          \* the progress bar's counter
    result,       \* what multipartUpload returned
    openCalls,    \* open-upload-session requests sent
    completeInvoked, \* calls of completeMultipartUpload
    completeCalls,\* complete-upload requests sent
    completeResp, \* response to the complete-upload call
    manifest,     \* the parts argument of completeMultipartUpload
    deq,          \* per part index, how often it was received from jobs
    writes,       \* per index of parts, how often it was assigned
    openHandles,  \* files the workers have opened and not closed
    now,          \* whole seconds since startTime
    elapsed,      \* elapsed at the last part completed
    eta           \* the bar's "remaining" value in seconds (-1: not set)

vars == <<filePath, fileSize, numCPU, pc, ext, exitCode, stage, successMsg,
          concurrency, openResp, partSize, numParts, nURLs, jobs, jobsClosed,
          next, pool, parts, errChan, errs, ranges, putCount, putStatus,
          bar, result, openCalls, completeInvoked, completeCalls, completeResp,
          manifest, deq, writes, openHandles, now, elapsed, eta>>

cmdVars == <<filePath, fileSize, numCPU>>
sessionVars == <<concurrency, openResp, partSize, numParts, nURLs>>
poolVars == <<jobs, jobsClosed, next, pool, parts, errChan, errs,
              ranges, putCount, putStatus, bar>>
endVars == <<result, completeInvoked, completeCalls, completeResp, manifest>>
timeVars == <<now, elapsed, eta>>

NoResp == [kind |-> "none", status |-> 0, body |-> ""]
TransportErr == [kind |-> "transport", status |-> 0, body |-> ""]
HTTPResp(s, b) == [kind |-> "http", status |-> s, body |-> b]

\* An error value: what failed, the part the message names (-1: none) and
\* the status code the message names (0: none).
Err(kind, part, code) == [kind |-> kind, part |-> part, code |-> code]

\* multipartUpload has not returned; multipartUpload returned nil.
Pending == Err("pending", -1, 0)
Nil == Err("nil", -1, 0)

\* The zero value of Part: PartNumber 0, ETag nil.
ZeroPart == [PartNumber |-> 0, ETag |-> "nil"]

\* ------------------------------------------------------------ pure helpers
\* filepath.Ext: the suffix from the last dot.
Ext(path) ==
    CASE path = "clip.MP4" -> ".MP4"
      [] path = "notes.txt" -> ".txt"
      [] OTHER -> ""

\* strings.ToLower on the extensions above.
ToLower(e) == IF e = ".MP4" THEN ".mp4" ELSE e

allowedExtensions == {".jpg", ".jpeg", ".png", ".gif", ".mp4", ".mov", ".avi", ".mkv"}

allowedMIMEs == {"image/jpeg", "image/png", "image/gif", "video/mp4",
                 "video/quicktime", "video/x-msvideo", "video/x-matroska"}

\* mime.TypeByExtension: the values the host's MIME table can give.  Go's
\* built-in table knows .jpg; .mp4 and .txt are there only on a host whose
\* system MIME files list them ("" otherwise).
TypeByExtension(e) ==
    CASE e = ".jpg" -> {"image/jpeg"}
      [] e = ".mp4" -> {"", "video/mp4"}
      [] e = ".txt" -> {"", "text/plain; charset=utf-8"}
      [] OTHER -> {""}

\* http.DetectContentType on the first 512 bytes: what the content may be.
DetectContentType == {"video/mp4", "image/jpeg", "application/octet-stream"}

systemConcurrency(cpus) == IF cpus > 1 THEN cpus ELSE defaultConcurrency

\* Mutant: the loop runs once too often (w <= concurrency).
PoolSizeOffByOne(c) == c + 1

\* How many goroutines the worker-pool loop launches.
PoolSize(c) == c

\* A worker goroutine: where it is, and its partNum while it has one.
Worker(st, p) == [st |-> st, part |-> p]
Idle == Worker("idle", -1)

\* DoRequest's verdict on a response: TRUE when it returns a nil error.
\* A transport error is returned.  On a status outside 200..299 the body is
\* decoded into the string field Error, which fails unless the body is a
\* JSON string; the APIResponse is then returned with a nil error.  On a
\* status inside 200..299 the body is unmarshalled into the target struct,
\* which fails unless it is a JSON object.
DoRequestOK(resp) ==
    /\ resp.kind = "http"
    /\ IF resp.status < 200 \/ resp.status >= 300
          THEN resp.body = "string"
          ELSE resp.body = "object"

\* Whether DoRequest filled the target struct from the body.
Decoded(resp) ==
    /\ resp.kind = "http"
    /\ ~(resp.status < 200 \/ resp.status >= 300)
    /\ resp.body = "object"

\* json.Marshal of the CompleteUploadRequest: a RawMessage that is nil is
\* written as null; one that is not valid JSON makes Marshal fail.
MarshalOK(ps) == \A i \in DOMAIN ps : ps[i].ETag # ""

\* Mutant: the last part is not clamped.
ReadSizeUnclamped(p) == partSize

\* The read size of part p (the last part is clamped to the file's end).
ReadSize(p) ==
    LET partOffset == p * partSize
    IN IF partOffset + partSize > fileSize THEN fileSize - partOffset ELSE partSize

\* Mutant: any status of the 200 range is accepted.
PutSucceededAny2xx(status) == status >= 200 /\ status < 300

\* The PUT response status a worker accepts.
PutSucceeded(status) == status = StatusOK

\* ---------------------------------------------------------------- the state
Init ==
    /\ filePath \in Paths
    /\ fileSize \in 0..MaxFileSize
    /\ numCPU \in 1..MaxCPU
    /\ pc = "CheckPath"
    /\ ext = ""
    /\ exitCode = -1
    /\ stage = "running"
    /\ successMsg = FALSE
    /\ concurrency = 0
    /\ openResp = NoResp
    /\ partSize = 0
    /\ numParts = 0
    /\ nURLs = 0
    /\ jobs = <<>>
    /\ jobsClosed = FALSE
    /\ next = 0
    /\ pool = EmptyBag
    /\ parts = <<>>
    /\ errChan = <<>>
    /\ errs = {}
    /\ ranges = <<>>
    /\ putCount = <<>>
    /\ putStatus = <<>>
    /\ bar = 0
    /\ result = Pending
    /\ openCalls = 0
    /\ completeCalls = 0
    /\ completeResp = NoResp
    /\ completeInvoked = 0
    /\ manifest = <<>>
    /\ deq = <<>>
    /\ writes = <<>>
    /\ openHandles = 0
    /\ now = 0
    /\ elapsed = 0
    /\ eta = -1

\* os.Exit(code): nothing of the process runs afterwards.
Exit(code, why) ==
    /\ pc' = "Exited"
    /\ exitCode' = code
    /\ stage' = why

\* A Go runtime panic in any goroutine ends the process with exit code 2.
Panic == Exit(2, "panic")

Running == exitCode = -1

\* The checks of uploadCmd that end the run when they fail.
ValidationStages == {"path", "abs", "stat", "ext", "open", "read", "mime"}

\* ------------------------------------------------- uploadCmd: the validation
\* filePath == "" is rejected.
CheckPath ==
    /\ Running /\ pc = "CheckPath"
    /\ IF filePath = "" THEN Exit(1, "path")
       ELSE pc' = "AbsPath" /\ UNCHANGED <<exitCode, stage>>
    /\ UNCHANGED <<cmdVars, ext, successMsg, sessionVars, poolVars, endVars, openCalls>>
    /\ UNCHANGED <<deq, writes, openHandles, timeVars>>

\* filepath.Abs fails when the working directory cannot be read.
AbsPath ==
    /\ Running /\ pc = "AbsPath"
    /\ \E absErr \in BOOLEAN :
          IF absErr THEN Exit(1, "abs")
          ELSE pc' = "StatFile" /\ UNCHANGED <<exitCode, stage>>
    /\ UNCHANGED <<cmdVars, ext, successMsg, sessionVars, poolVars, endVars, openCalls>>
    /\ UNCHANGED <<deq, writes, openHandles, timeVars>>

\* os.Stat: a file that does not exist is rejected.
StatFile ==
    /\ Running /\ pc = "StatFile"
    /\ \E notExist \in BOOLEAN :
          IF notExist THEN Exit(1, "stat")
          ELSE pc' = "CheckExt" /\ UNCHANGED <<exitCode, stage>>
    /\ UNCHANGED <<cmdVars, ext, successMsg, sessionVars, poolVars, endVars, openCalls>>
    /\ UNCHANGED <<deq, writes, openHandles, timeVars>>

\* The lower-cased extension must be in allowedExtensions.
CheckExt ==
    /\ Running /\ pc = "CheckExt"
    /\ ext' = ToLower(Ext(filePath))
    /\ IF ext' \notin allowedExtensions THEN Exit(1, "ext")
       ELSE pc' = "OpenFile" /\ UNCHANGED <<exitCode, stage>>
    /\ UNCHANGED <<cmdVars, successMsg, sessionVars, poolVars, endVars, openCalls>>
    /\ UNCHANGED <<deq, writes, openHandles, timeVars>>

\* os.Open of the file.
OpenFile ==
    /\ Running /\ pc = "OpenFile"
    /\ \E openErr \in BOOLEAN :
          IF openErr THEN Exit(1, "open")
          ELSE pc' = "ReadHead" /\ UNCHANGED <<exitCode, stage>>
    /\ UNCHANGED <<cmdVars, ext, successMsg, sessionVars, poolVars, endVars, openCalls>>
    /\ UNCHANGED <<deq, writes, openHandles, timeVars>>

\* Mutant: io.EOF is tolerated, as in the workers' read.
ReadHeadToleratesEOF ==
    /\ Running /\ pc = "ReadHead"
    /\ \E ioErr \in BOOLEAN :
          IF ioErr THEN Exit(1, "read")
          ELSE pc' = "CheckMIME" /\ UNCHANGED <<exitCode, stage>>
    /\ UNCHANGED <<cmdVars, ext, successMsg, sessionVars, poolVars, endVars, openCalls>>
    /\ UNCHANGED <<deq, writes, openHandles, timeVars>>

\* file.Read of the first 512 bytes: io.EOF on an empty file is an error
\* like any other.
ReadHead ==
    /\ Running /\ pc = "ReadHead"
    /\ \E ioErr \in BOOLEAN :
          IF ioErr \/ fileSize = 0 THEN Exit(1, "read")
          ELSE pc' = "CheckMIME" /\ UNCHANGED <<exitCode, stage>>
    /\ UNCHANGED <<cmdVars, ext, successMsg, sessionVars, poolVars, endVars, openCalls>>
    /\ UNCHANGED <<deq, writes, openHandles, timeVars>>

\* Mutant: the error is printed but os.Exit(1) is missing.
CheckMIMENoExit ==
    /\ Running /\ pc = "CheckMIME"
    /\ \E byExt \in TypeByExtension(ext), sniffed \in DetectContentType :
          LET mimeType == IF byExt = "" THEN sniffed ELSE byExt
          IN /\ stage' = IF mimeType \notin allowedMIMEs THEN "mime" ELSE stage
             /\ pc' = "Stat"
             /\ UNCHANGED exitCode
    /\ UNCHANGED <<cmdVars, ext, successMsg, sessionVars, poolVars, endVars, openCalls>>
    /\ UNCHANGED <<deq, writes, openHandles, timeVars>>

\* The MIME type by extension, sniffed from the content when the extension
\* has none, must be in allowedMIMEs.
CheckMIME ==
    /\ Running /\ pc = "CheckMIME"
    /\ \E byExt \in TypeByExtension(ext), sniffed \in DetectContentType :
          LET mimeType == IF byExt = "" THEN sniffed ELSE byExt
          IN IF mimeType \notin allowedMIMEs THEN Exit(1, "mime")
             ELSE pc' = "Stat" /\ UNCHANGED <<exitCode, stage>>
    /\ UNCHANGED <<cmdVars, ext, successMsg, sessionVars, poolVars, endVars, openCalls>>
    /\ UNCHANGED <<deq, writes, openHandles, timeVars>>

\* ------------------------------------------------------------ multipartUpload
\* multipartUpload returns v to uploadCmd.
Return(v) ==
    /\ result' = v
    /\ pc' = "Returned"

\* os.Stat for the file size, and systemConcurrency().
Stat ==
    /\ Running /\ pc = "Stat"
    /\ \E statErr \in BOOLEAN :
          IF statErr
             THEN /\ Return(Err("stat", -1, 0))
                  /\ UNCHANGED concurrency
             ELSE /\ concurrency' = systemConcurrency(numCPU)
                  /\ pc' = "Negotiate"
                  /\ UNCHANGED result
    /\ UNCHANGED <<cmdVars, ext, exitCode, stage, successMsg, openResp, partSize,
                   numParts, nURLs, poolVars, completeCalls, completeResp,
                   completeInvoked, manifest, openCalls>>
    /\ UNCHANGED <<deq, writes, openHandles, timeVars>>

\* The responses a call to the control plane can get.
Responses == {TransportErr} \cup {HTTPResp(s, b) : s \in Statuses, b \in Bodies}

\* What CreateMediaUpload hands back when DoRequest returned a nil error:
\* the decoded fields, or the zero value of the struct when DoRequest did
\* not decode into it.
Sessions(resp) ==
    IF Decoded(resp)
       THEN [partSize : 1..MaxPartSize, numParts : 0..MaxParts, nURLs : 0..MaxParts]
       ELSE {[partSize |-> 0, numParts |-> 0, nURLs |-> 0]}

\* createMediaUpload, then the channels, the parts slice and the worker pool.
Negotiate ==
    /\ Running /\ pc = "Negotiate"
    /\ openCalls' = openCalls + 1
    /\ \E resp \in Responses :
          /\ openResp' = resp
          /\ IF ~DoRequestOK(resp)
                THEN /\ Return(Err("negotiation", -1, 0))
                     /\ UNCHANGED <<partSize, numParts, nURLs, pool, parts,
                                    ranges, putCount, putStatus, deq, writes>>
                ELSE /\ \E s \in Sessions(resp) :
                          /\ partSize' = s.partSize
                          /\ numParts' = s.numParts
                          /\ nURLs' = s.nURLs
                          /\ parts' = [i \in 0..(s.nURLs - 1) |-> ZeroPart]
                          /\ ranges' = [i \in 0..(s.numParts - 1) |-> <<>>]
                          /\ putCount' = [i \in 0..(s.numParts - 1) |-> 0]
                          /\ putStatus' = [i \in 0..(s.numParts - 1) |-> 0]
                          /\ deq' = [i \in 0..(s.numParts - 1) |-> 0]
                          /\ writes' = [i \in 0..(s.nURLs - 1) |-> 0]
                     /\ pool' = (Idle :> PoolSize(concurrency))
                     /\ pc' = "Dispatch"
                     /\ UNCHANGED result
    /\ UNCHANGED <<cmdVars, ext, exitCode, stage, successMsg, concurrency, jobs,
                   jobsClosed, next, errChan, errs, bar, completeInvoked,
                   completeCalls, completeResp, manifest>>
    /\ UNCHANGED <<openHandles, timeVars>>

\* jobs <- i: the channel's capacity is numParts.
Dispatch ==
    /\ Running /\ pc = "Dispatch"
    /\ next < numParts
    /\ Len(jobs) < numParts
    /\ jobs' = Append(jobs, next)
    /\ next' = next + 1
    /\ UNCHANGED <<cmdVars, pc, ext, exitCode, stage, successMsg, sessionVars,
                   jobsClosed, pool, parts, errChan, errs, ranges, putCount,
                   putStatus, bar, endVars, openCalls>>
    /\ UNCHANGED <<deq, writes, openHandles, timeVars>>

\* close(jobs) after the last job.
CloseJobs ==
    /\ Running /\ pc = "Dispatch"
    /\ ~(next < numParts)
    /\ jobsClosed' = TRUE
    /\ pc' = "Wait"
    /\ UNCHANGED <<cmdVars, ext, exitCode, stage, successMsg, sessionVars, jobs,
                   next, pool, parts, errChan, errs, ranges, putCount,
                   putStatus, bar, endVars, openCalls>>
    /\ UNCHANGED <<deq, writes, openHandles, timeVars>>

\* The workers at one of the positions sts.
At(sts) == [x \in {y \in BagToSet(pool) : y.st \in sts} |-> pool[x]]

\* Mutant: no barrier, the coordinator goes on while workers run.
NoBarrier == TRUE

\* wg.Wait() returns once every worker has run its deferred wg.Done(); then
\* close(errChan) and bar.Finish().
WaitDone == BagCardinality(At({"done", "failed"})) = BagCardinality(pool)

Wait ==
    /\ Running /\ pc = "Wait"
    /\ WaitDone
    /\ pc' = "Drain"
    /\ UNCHANGED <<cmdVars, ext, exitCode, stage, successMsg, sessionVars,
                   poolVars, endVars, openCalls>>
    /\ UNCHANGED <<deq, writes, openHandles, timeVars>>

\* Mutant: the errors received are dropped (if err == nil { return err }).
DrainSkipsErrors ==
    /\ Running /\ pc = "Drain"
    /\ pc' = "Complete"
    /\ errChan' = <<>>
    /\ UNCHANGED <<cmdVars, ext, exitCode, stage, successMsg, sessionVars, jobs,
                   jobsClosed, next, pool, parts, errs, ranges, putCount,
                   putStatus, bar, result, completeInvoked, completeCalls,
                   completeResp, manifest, openCalls>>
    /\ UNCHANGED <<deq, writes, openHandles, timeVars>>

\* for err := range errChan: the first error received is returned.
Drain ==
    /\ Running /\ pc = "Drain"
    /\ IF errChan # <<>>
          THEN /\ Return(Head(errChan))
               /\ errChan' = Tail(errChan)
          ELSE /\ pc' = "Complete"
               /\ UNCHANGED <<result, errChan>>
    /\ UNCHANGED <<cmdVars, ext, exitCode, stage, successMsg, sessionVars, jobs,
                   jobsClosed, next, pool, parts, errs, ranges, putCount,
                   putStatus, bar, completeInvoked, completeCalls,
                   completeResp, manifest, openCalls>>
    /\ UNCHANGED <<deq, writes, openHandles, timeVars>>

\* The parts slice as a sequence, in index order.
PartsList == [i \in 1..nURLs |-> parts[i - 1]]

\* completeMultipartUpload: the request body is marshalled first, and no
\* request is sent when that fails.
Complete ==
    /\ Running /\ pc = "Complete"
    /\ completeInvoked' = completeInvoked + 1
    /\ manifest' = PartsList
    /\ IF ~MarshalOK(parts)
          THEN /\ Return(Err("complete", -1, 0))
               /\ UNCHANGED <<completeCalls, completeResp>>
          ELSE /\ completeCalls' = completeCalls + 1
               /\ \E resp \in Responses :
                     /\ completeResp' = resp
                     /\ IF DoRequestOK(resp)
                           THEN Return(Nil)
                           ELSE Return(Err("complete", -1, 0))
    /\ UNCHANGED <<cmdVars, ext, exitCode, stage, successMsg, sessionVars,
                   poolVars, openCalls>>
    /\ UNCHANGED <<deq, writes, openHandles, timeVars>>

\* uploadCmd after multipartUpload: an error exits 1, nil prints the success
\* message and the command returns.
Finish ==
    /\ Running /\ pc = "Returned"
    /\ IF result # Nil
          THEN /\ exitCode' = 1 /\ stage' = "upload"
               /\ UNCHANGED successMsg
          ELSE /\ exitCode' = 0 /\ stage' = "done"
               /\ successMsg' = TRUE
    /\ pc' = "Exited"
    /\ UNCHANGED <<cmdVars, ext, sessionVars, poolVars, endVars, openCalls>>
    /\ UNCHANGED <<deq, writes, openHandles, timeVars>>

\* ------------------------------------------------------------- the workers
\* One worker moves from position a to position b.
Move(a, b) == pool' = (pool (-) SetToBag({a})) (+) SetToBag({b})

\* Mutant: the channel is one slot short.
ErrChanCapShort == nURLs - 1

\* make(chan error, len(presignedURLs)): the capacity of errChan.
ErrChanCap == nURLs

\* errChan <- e, then return.  A send on a full channel blocks, and nothing
\* receives before wg.Wait().
Fail(a, e) ==
    IF Len(errChan) < ErrChanCap
       THEN /\ errChan' = Append(errChan, e)
            /\ errs' = errs \cup {e}
            /\ Move(a, Worker("failed", -1))
       ELSE /\ Move(a, Worker("blocked", -1))
            /\ UNCHANGED <<errChan, errs>>

\* Mutant: the job is read but stays in the queue.
DequeuePeeks ==
    /\ Running /\ BagIn(Idle, pool)
    /\ jobs # <<>>
    /\ Move(Idle, Worker("read", Head(jobs)))
    /\ deq' = [deq EXCEPT ![Head(jobs)] = @ + 1]
    /\ UNCHANGED <<cmdVars, pc, ext, exitCode, stage, successMsg, sessionVars,
                   jobs, jobsClosed, next, parts, errChan, errs, ranges, putCount,
                   putStatus, bar, endVars, openCalls>>
    /\ UNCHANGED <<writes, openHandles, timeVars>>

\* partNum := <-jobs
Dequeue ==
    /\ Running /\ BagIn(Idle, pool)
    /\ jobs # <<>>
    /\ Move(Idle, Worker("read", Head(jobs)))
    /\ jobs' = Tail(jobs)
    /\ deq' = [deq EXCEPT ![Head(jobs)] = @ + 1]
    /\ UNCHANGED <<cmdVars, pc, ext, exitCode, stage, successMsg, sessionVars,
                   jobsClosed, next, parts, errChan, errs, ranges, putCount,
                   putStatus, bar, endVars, openCalls>>
    /\ UNCHANGED <<writes, openHandles, timeVars>>

\* Mutant: the worker leaves as soon as the channel is closed.
WorkerExitEarly ==
    /\ Running /\ BagIn(Idle, pool)
    /\ jobsClosed
    /\ Move(Idle, Worker("done", -1))
    /\ UNCHANGED <<cmdVars, pc, ext, exitCode, stage, successMsg, sessionVars,
                   jobs, jobsClosed, next, parts, errChan, errs, ranges,
                   putCount, putStatus, bar, endVars, openCalls>>
    /\ UNCHANGED <<deq, writes, openHandles, timeVars>>

\* range jobs ends: the channel is closed and empty.
WorkerExit ==
    /\ Running /\ BagIn(Idle, pool)
    /\ jobs = <<>> /\ jobsClosed
    /\ Move(Idle, Worker("done", -1))
    /\ UNCHANGED <<cmdVars, pc, ext, exitCode, stage, successMsg, sessionVars,
                   jobs, jobsClosed, next, parts, errChan, errs, ranges,
                   putCount, putStatus, bar, endVars, openCalls>>
    /\ UNCHANGED <<deq, writes, openHandles, timeVars>>

\* Mutant: the seek-error path forgets file.Close().
ClosesExceptOnSeek(path) == IF path \in {"read", "ok"} THEN 1 ELSE 0

\* How many file.Close() calls a worker makes on a path through the read of
\* a part once os.Open succeeded: one after a seek error, one after a read
\* error, one after the read; none before buffer[:readSize] panics.
Closes(path) == IF path \in {"seek", "read", "ok"} THEN 1 ELSE 0

\* presignedURLs[partNum], then open, seek and read of the part's bytes.
\* Indexing past the slice panics; so does buffer[:readSize] with a
\* negative readSize.  A read of zero bytes cannot fail.
ReadPart(p) ==
    /\ Running /\ BagIn(Worker("read", p), pool)
    /\ IF p >= nURLs
          THEN Panic /\ UNCHANGED <<pool, errChan, errs, ranges, openHandles>>
          ELSE \E outcome \in {"ok", "open", "seek", "read"} :
                  IF outcome = "open"
                     THEN /\ Fail(Worker("read", p), Err("open", -1, 0))
                          /\ UNCHANGED <<ranges, pc, exitCode, stage, openHandles>>
                  ELSE IF outcome = "seek"
                     THEN /\ Fail(Worker("read", p), Err("seek", p, 0))
                          /\ openHandles' = openHandles + 1 - Closes("seek")
                          /\ UNCHANGED <<ranges, pc, exitCode, stage>>
                  ELSE IF ReadSize(p) < 0
                     THEN /\ Panic
                          /\ openHandles' = openHandles + 1 - Closes("slice")
                          /\ UNCHANGED <<pool, errChan, errs, ranges>>
                  ELSE IF outcome = "read" /\ ReadSize(p) > 0
                     THEN /\ Fail(Worker("read", p), Err("read", p, 0))
                          /\ openHandles' = openHandles + 1 - Closes("read")
                          /\ UNCHANGED <<ranges, pc, exitCode, stage>>
                  ELSE /\ ranges' = [ranges EXCEPT ![p] = <<p * partSize, ReadSize(p)>>]
                       /\ Move(Worker("read", p), Worker("put", p))
                       /\ openHandles' = openHandles + 1 - Closes("ok")
                       /\ UNCHANGED <<errChan, errs, pc, exitCode, stage>>
    /\ UNCHANGED <<cmdVars, ext, successMsg, sessionVars, jobs, jobsClosed, next,
                   parts, putCount, putStatus, bar, endVars, openCalls>>
    /\ UNCHANGED <<deq, writes, timeVars>>

\* The remaining-time estimate set on the bar when part partNum completes
\* el seconds after the start: int() truncates the seconds per part.
Remaining(partNum, el) == (numParts - partNum - 1) * (el \div (partNum + 1))

\* Mutant: a transport error is retried instead of reported.
PutPartRetries(p) ==
    /\ Running /\ BagIn(Worker("put", p), pool)
    /\ \E outcome \in {"request", "transport", "response"},
          status \in Statuses, etag \in ETags :
          IF outcome = "request"
             THEN /\ Fail(Worker("put", p), Err("request", p, 0))
                  /\ UNCHANGED <<parts, putCount, putStatus, bar, writes, timeVars>>
          ELSE IF outcome = "transport"
             THEN /\ putCount' = [putCount EXCEPT ![p] = @ + 1]
                  /\ UNCHANGED <<pool, errChan, errs>>
                  /\ UNCHANGED <<parts, putStatus, bar, writes, timeVars>>
          ELSE /\ putCount' = [putCount EXCEPT ![p] = @ + 1]
               /\ putStatus' = [putStatus EXCEPT ![p] = status]
               /\ IF ~PutSucceeded(status)
                     THEN /\ Fail(Worker("put", p), Err("status", p, status))
                          /\ UNCHANGED <<parts, bar, writes, timeVars>>
                     ELSE /\ parts' = [parts EXCEPT ![p] =
                                          [PartNumber |-> p + 1, ETag |-> etag]]
                          /\ writes' = [writes EXCEPT ![p] = @ + 1]
                          /\ bar' = bar + 1
                          /\ elapsed' = now
                          /\ eta' = Remaining(p, now)
                          /\ UNCHANGED now
                          /\ Move(Worker("put", p), Idle)
                          /\ UNCHANGED <<errChan, errs>>
    /\ UNCHANGED <<cmdVars, pc, ext, exitCode, stage, successMsg, sessionVars,
                   jobs, jobsClosed, next, ranges, endVars, openCalls>>
    /\ UNCHANGED <<deq, openHandles>>

\* Mutant: bar.Increment() runs before the status is looked at.
PutPartCountsFailures(p) ==
    /\ Running /\ BagIn(Worker("put", p), pool)
    /\ \E outcome \in {"request", "transport", "response"},
          status \in Statuses, etag \in ETags :
          IF outcome = "request"
             THEN /\ Fail(Worker("put", p), Err("request", p, 0))
                  /\ UNCHANGED <<parts, putCount, putStatus, bar, writes, timeVars>>
          ELSE IF outcome = "transport"
             THEN /\ putCount' = [putCount EXCEPT ![p] = @ + 1]
                  /\ Fail(Worker("put", p), Err("transport", p, 0))
                  /\ UNCHANGED <<parts, putStatus, bar, writes, timeVars>>
          ELSE /\ putCount' = [putCount EXCEPT ![p] = @ + 1]
               /\ putStatus' = [putStatus EXCEPT ![p] = status]
               /\ IF ~PutSucceeded(status)
                     THEN /\ Fail(Worker("put", p), Err("status", p, status))
                          /\ bar' = bar + 1
                          /\ UNCHANGED <<parts, writes, timeVars>>
                     ELSE /\ parts' = [parts EXCEPT ![p] =
                                          [PartNumber |-> p + 1, ETag |-> etag]]
                          /\ writes' = [writes EXCEPT ![p] = @ + 1]
                          /\ bar' = bar + 1
                          /\ elapsed' = now
                          /\ eta' = Remaining(p, now)
                          /\ UNCHANGED now
                          /\ Move(Worker("put", p), Idle)
                          /\ UNCHANGED <<errChan, errs>>
    /\ UNCHANGED <<cmdVars, pc, ext, exitCode, stage, successMsg, sessionVars,
                   jobs, jobsClosed, next, ranges, endVars, openCalls>>
    /\ UNCHANGED <<deq, openHandles>>

\* The PUT of the bytes read: building the request can fail, the transport
\* can fail, or a response arrives; only an accepted status records the part.
PutPart(p) ==
    /\ Running /\ BagIn(Worker("put", p), pool)
    /\ \E outcome \in {"request", "transport", "response"},
          status \in Statuses, etag \in ETags :
          IF outcome = "request"
             THEN /\ Fail(Worker("put", p), Err("request", p, 0))
                  /\ UNCHANGED <<parts, putCount, putStatus, bar, writes, timeVars>>
          ELSE IF outcome = "transport"
             THEN /\ putCount' = [putCount EXCEPT ![p] = @ + 1]
                  /\ Fail(Worker("put", p), Err("transport", p, 0))
                  /\ UNCHANGED <<parts, putStatus, bar, writes, timeVars>>
          ELSE /\ putCount' = [putCount EXCEPT ![p] = @ + 1]
               /\ putStatus' = [putStatus EXCEPT ![p] = status]
               /\ IF ~PutSucceeded(status)
                     THEN /\ Fail(Worker("put", p), Err("status", p, status))
                          /\ UNCHANGED <<parts, bar, writes, timeVars>>
                     ELSE /\ parts' = [parts EXCEPT ![p] =
                                          [PartNumber |-> p + 1, ETag |-> etag]]
                          /\ writes' = [writes EXCEPT ![p] = @ + 1]
                          /\ bar' = bar + 1
                          /\ elapsed' = now
                          /\ eta' = Remaining(p, now)
                          /\ UNCHANGED now
                          /\ Move(Worker("put", p), Idle)
                          /\ UNCHANGED <<errChan, errs>>
    /\ UNCHANGED <<cmdVars, pc, ext, exitCode, stage, successMsg, sessionVars,
                   jobs, jobsClosed, next, ranges, endVars, openCalls>>
    /\ UNCHANGED <<deq, openHandles>>

\* ------------------------------------------------------- the specification
Next ==
    \/ CheckPath
    \/ AbsPath
    \/ StatFile
    \/ CheckExt
    \/ OpenFile
    \/ ReadHead
    \/ CheckMIME
    \/ Stat
    \/ Negotiate
    \/ Dispatch
    \/ CloseJobs
    \/ Wait
    \/ Drain
    \/ Complete
    \/ Finish
    \/ Dequeue
    \/ WorkerExit
    \/ \E p \in 0..(numParts - 1) : ReadPart(p)
    \/ \E p \in 0..(numParts - 1) : PutPart(p)

\* Every run whose transfers all finish within the first second after
\* startTime: the clock stays at 0.
Spec == Init /\ [][Next]_vars

\* A second passes.
Tick ==
    /\ Running
    /\ now < MaxSeconds
    /\ now' = now + 1
    /\ UNCHANGED <<cmdVars, pc, ext, exitCode, stage, successMsg, sessionVars,
                   poolVars, endVars, openCalls, deq, writes, openHandles,
                   elapsed, eta>>

\* The runs of one file on a host of MaxCPU cores, with the clock running.
InitETA ==
    /\ Init
    /\ filePath = "clip.MP4"
    /\ fileSize = MaxFileSize
    /\ numCPU = MaxCPU

NextETA == Next \/ Tick

SpecETA == InitETA /\ [][NextETA]_vars

\* ================================================================ the claims
\* The workers between dequeuing a part index and finishing or failing its
\* transfer.
InFlight == BagCardinality(At({"read", "put"}))

\* A worker's transfer failed: it sent an error or is stuck sending one.
PartFailed == errs # {} \/ BagIn(Worker("blocked", -1), pool)

\* A response with a status outside 200..299.
NonSuccess(resp) == resp.kind = "http" /\ (resp.status < 200 \/ resp.status > 299)

IsError(v) == v # Pending /\ v # Nil

CeilDiv(a, b) == (a + b - 1) \div b

\* The part indices whose bytes have been read.
ReadParts == {p \in DOMAIN ranges : ranges[p] # <<>>}

RECURSIVE SumLen(_)
SumLen(ps) ==
    IF ps = {} THEN 0
    ELSE LET p == CHOOSE q \in ps : TRUE
         IN ranges[p][2] + SumLen(ps \ {p})

\* C1: once a part transfer has failed, completeMultipartUpload is not
\* invoked, and what multipartUpload returns is one of the errors the
\* workers recorded.
C1_FailureNeverFinalizes ==
    PartFailed =>
        /\ completeInvoked = 0
        /\ result # Nil
        /\ (result # Pending => result \in errs)

\* C1 witness: two parts failed and the run ended with one of their errors.
C1_Witness ==
    /\ pc = "Exited" /\ exitCode = 1
    /\ Cardinality(errs) >= 2
    /\ result \in errs
    /\ bar >= 1

\* C2: the parts handed to completeMultipartUpload are exactly numParts
\* entries numbered 1..numParts in ascending order, whatever the control
\* plane returned.
C2_ManifestExact ==
    completeInvoked > 0 =>
        /\ Len(manifest) = numParts
        /\ \A i \in 1..Len(manifest) : manifest[i].PartNumber = i

\* C3: the part transfers in progress at the same time never number more
\* than the value systemConcurrency returns.
C3_ConcurrencyBound == InFlight <= systemConcurrency(numCPU)

\* C3 witness: every worker of the pool is busy while a job still waits.
C3_Witness ==
    /\ InFlight = systemConcurrency(numCPU)
    /\ jobs # <<>>

\* C4 as claimed: the part jobs dispatched number ceil(S / P).
C4_JobsAreCeilDiv ==
    (jobsClosed /\ partSize > 0) => next = CeilDiv(fileSize, partSize)

\* C4 as amended: the part jobs dispatched number numParts, the count the
\* control plane returned; every part read starts at i * P and is P bytes
\* long, or S - i * P when that is shorter; the parts read are pairwise
\* disjoint; and when numParts is ceil(S / P) and every part has been read,
\* the lengths sum to S and every byte of [0, S) is in exactly one part.
C4_PartRanges ==
    /\ jobsClosed => next = numParts
    /\ next <= numParts
    /\ \A p \in ReadParts :
          /\ ranges[p][1] = p * partSize
          /\ ranges[p][2] >= 0
          /\ ranges[p][2] = IF fileSize - p * partSize < partSize
                               THEN fileSize - p * partSize ELSE partSize
    /\ \A p, q \in ReadParts :
          p < q => ranges[p][1] + ranges[p][2] <= ranges[q][1]
    /\ (/\ partSize > 0
        /\ numParts = CeilDiv(fileSize, partSize)
        /\ ReadParts = 0..(numParts - 1))
          => /\ SumLen(ReadParts) = fileSize
             /\ \A b \in 0..(fileSize - 1) :
                   Cardinality({p \in ReadParts :
                       ranges[p][1] <= b /\ b < ranges[p][1] + ranges[p][2]}) = 1

\* C4 witness: a file of two parts, the last one short, read in full and
\* finalized.
C4_Witness ==
    /\ partSize > 0
    /\ numParts = CeilDiv(fileSize, partSize)
    /\ numParts >= 2
    /\ ReadParts = 0..(numParts - 1)
    /\ ranges[numParts - 1][2] < partSize
    /\ completeInvoked = 1

\* C5: a non-success status on the open-upload-session call fails the
\* negotiation: multipartUpload returns an error, no part is transferred and
\* completeMultipartUpload is not invoked.
C5_NonSuccessFailsNegotiation ==
    NonSuccess(openResp) =>
        /\ result # Nil
        /\ pc \in {"Returned", "Exited"} => IsError(result)
        /\ InFlight = 0
        /\ \A p \in DOMAIN putCount : putCount[p] = 0
        /\ completeInvoked = 0

\* C6: a non-success status or a transport error on the complete-upload call
\* fails the upload with exit code 1, and the success message with exit code
\* 0 needs a success status on that call.
C6_FinalizationFails ==
    /\ (NonSuccess(completeResp) \/ completeResp.kind = "transport") =>
          /\ IsError(result)
          /\ (pc = "Exited" => exitCode = 1)
    /\ (successMsg \/ exitCode = 0) =>
          /\ completeResp.kind = "http"
          /\ ~NonSuccess(completeResp)

\* C7: completeMultipartUpload is invoked at most once, and only with every
\* worker returned, no job queued and no error in the error channel.
C7_FinalizeOnceAfterBarrier ==
    /\ completeInvoked <= 1
    /\ completeInvoked = 1 =>
          /\ \A x \in BagToSet(pool) : x.st \in {"done", "failed"}
          /\ jobs = <<>>
          /\ jobsClosed
          /\ errChan = <<>>
          /\ errs = {}

\* C7 witness: finalization after a pool of workers moved three parts.
C7_Witness ==
    /\ completeInvoked = 1
    /\ numParts = MaxParts
    /\ bar = numParts

\* C8 as claimed: a PUT answered with any status of 200..299 records the
\* part and reports no error.
C8_Any2xxSucceeds ==
    \A p \in DOMAIN putStatus :
        (putStatus[p] >= 200 /\ putStatus[p] <= 299) =>
            /\ p < nURLs
            /\ parts[p].PartNumber = p + 1
            /\ Err("status", p, putStatus[p]) \notin errs

\* C8 as amended: a PUT answered with status 200 records the part and
\* reports no error; answered with any other status, 201..299 included, it
\* reports an error naming the status and records no part.
C8_Only200Succeeds ==
    \A p \in DOMAIN putStatus :
        putStatus[p] # 0 =>
            /\ p < nURLs
            /\ putStatus[p] = 200 =>
                  /\ parts[p].PartNumber = p + 1
                  /\ Err("status", p, putStatus[p]) \notin errs
            /\ putStatus[p] # 200 =>
                  /\ parts[p] = ZeroPart
                  /\ Err("status", p, putStatus[p]) \in errs

\* C8 witness: one part answered 200 and recorded, another answered 204
\* and failed.
C8_Witness ==
    \E p, q \in DOMAIN putStatus :
        /\ putStatus[p] = 200 /\ parts[p].PartNumber = p + 1
        /\ putStatus[q] = 204 /\ Err("status", q, 204) \in errs

\* C9: a zero-byte file is either rejected before negotiation is attempted,
\* or negotiated with numParts = 0, and then no job is dispatched, no
\* worker records an error and completeMultipartUpload is invoked exactly
\* once, with an empty parts list.
C9_ZeroByteFile ==
    fileSize = 0 =>
        \/ /\ openCalls = 0
           /\ pc = "Exited" => exitCode = 1
        \/ /\ openCalls = 1
           /\ numParts = 0
           /\ next = 0
           /\ ~PartFailed
           /\ completeInvoked <= 1
           /\ pc \in {"Returned", "Exited"} =>
                 (completeInvoked = 1 /\ manifest = <<>>)

\* C9 witness: a zero-byte file of an allowed type, rejected when its first
\* bytes are read.
C9_Witness ==
    /\ fileSize = 0
    /\ stage = "read"
    /\ exitCode = 1
    /\ ext \in allowedExtensions
    /\ openCalls = 0

\* C10: a run that fails a validation check ends with exit code 1 and has
\* sent no open-upload-session, part PUT or complete-upload request; a run
\* that has sent one passed the checks.
C10_ValidationBeforeNetwork ==
    /\ stage \in ValidationStages =>
          /\ exitCode = 1
          /\ openCalls = 0
          /\ completeCalls = 0
          /\ \A p \in DOMAIN putCount : putCount[p] = 0
    /\ openCalls > 0 =>
          /\ filePath # ""
          /\ ToLower(Ext(filePath)) \in allowedExtensions
          /\ fileSize > 0

\* C10 witness: the last check, the MIME type, rejected the file.
C10_Witness ==
    /\ stage = "mime"
    /\ exitCode = 1
    /\ openCalls = 0

\* wg.Wait() has returned in this run.
BarrierPassed ==
    \/ pc \in {"Drain", "Complete", "Returned"} /\ jobsClosed
    \/ pc = "Exited" /\ stage \in {"upload", "done"} /\ jobsClosed

\* The indices of parts with a recorded entry.
Recorded == {i \in DOMAIN parts : parts[i] # ZeroPart}

\* The workers that have not returned.
Unreturned == BagCardinality(At({"idle", "read", "put", "blocked"}))

\* C11 (as stated): once the barrier is passed, every part index has been
\* dequeued exactly once.
C11_AllDequeuedOnce ==
    BarrierPassed => \A i \in DOMAIN deq : deq[i] = 1

\* C11 (amended): no part index is dequeued twice; the indices dequeued are
\* those dispatched and no longer queued; and once the barrier is passed
\* every index has been dequeued exactly once provided some worker left
\* through the closed, empty queue (as one does when no part fails).  When
\* every worker has failed, the indices still queued are never dequeued.
C11_DequeuedAtMostOnce ==
    /\ \A i \in DOMAIN deq :
          /\ deq[i] <= 1
          /\ deq[i] = 1 <=> (i < next /\ \A k \in 1..Len(jobs) : jobs[k] # i)
    /\ (BarrierPassed /\ BagIn(Worker("done", -1), pool))
          => \A i \in DOMAIN deq : deq[i] = 1

C11_Witness ==
    /\ BarrierPassed
    /\ errs # {}
    /\ BagIn(Worker("done", -1), pool)
    /\ numParts >= 2
    /\ \A i \in DOMAIN deq : deq[i] = 1

\* C12: a send on errChan never blocks: no worker is ever stuck sending,
\* and the workers that failed, like the errors in the channel, never
\* outnumber len(presignedURLs).
C12_ErrorSendNeverBlocks ==
    /\ ~BagIn(Worker("blocked", -1), pool)
    /\ BagCardinality(At({"failed"})) <= nURLs
    /\ Len(errChan) <= nURLs

C12_Witness ==
    /\ nURLs >= 2
    /\ Len(errChan) = nURLs
    /\ pc \in {"Dispatch", "Wait"}

\* C13: once the process has ended after a part failure, every other
\* worker has run to its end: none is left waiting for a job, reading or
\* in a PUT, and a worker that left through the queue left it empty.
C13_SiblingsRunToCompletion ==
    (PartFailed /\ ~Running) =>
        /\ Unreturned = 0
        /\ BagIn(Worker("done", -1), pool) => jobs = <<>>

\* C14: nothing is retried: at most one PUT per part index, at most one
\* call that opens the session, and completeMultipartUpload is entered and
\* its request sent at most once.
C14_NothingRetried ==
    /\ \A p \in DOMAIN putCount : putCount[p] <= 1
    /\ openCalls <= 1
    /\ completeInvoked <= 1
    /\ completeCalls <= 1

C14_Witness ==
    /\ numParts >= 2
    /\ \A p \in DOMAIN putCount : putCount[p] = 1
    /\ \E p \in DOMAIN putCount : ~PutSucceeded(putStatus[p])
    /\ openCalls = 1
    /\ exitCode = 1

\* C15: the parts slice is free of contention: an index is written at most
\* once, a recorded entry carries the number of its own index and was
\* written by the one worker that dequeued that index, and no two workers
\* hold the same part index at a time.
C15_PartsContentionFree ==
    /\ \A i \in DOMAIN writes : writes[i] <= 1
    /\ \A i \in Recorded :
          /\ parts[i].PartNumber = i + 1
          /\ writes[i] = 1
          /\ i \in DOMAIN deq /\ deq[i] = 1
    /\ \A i \in DOMAIN writes : writes[i] = 1 => i \in Recorded
    /\ \A p \in DOMAIN deq :
          CopiesIn(Worker("read", p), pool) + CopiesIn(Worker("put", p), pool) <= 1

C15_Witness ==
    /\ Recorded # {}
    /\ BagCardinality(At({"put"})) >= 2

\* C16: the progress counter counts the recorded parts: it is always the
\* number of parts with a recorded entry (so also when the barrier is
\* passed), a step changes it only by adding one, and it does so exactly
\* when the step records a part.
C16_ProgressCountsCompleted ==
    /\ [](bar = Cardinality(Recorded))
    /\ [][/\ bar' \in {bar, bar + 1}
          /\ bar' = bar + 1 <=> Recorded' # Recorded
          /\ errs' # errs => bar' = bar]_vars

C16_Witness ==
    /\ BarrierPassed
    /\ errs # {}
    /\ bar >= 1
    /\ bar < numParts

\* C17: after a part-completed event the estimate is
\* partsRemaining * (elapsed / partsCompletedSoFar) in whole seconds, with
\* the division or the product taken first.
C17_EstimateUsesCompletedCount ==
    bar >= 1 =>
        eta \in {(numParts - bar) * (elapsed \div bar),
                 ((numParts - bar) * elapsed) \div bar}

\* C18: once negotiation has returned, a process that has ended has passed
\* the barrier with every worker returned, and ended in success or failure.
C18_AlwaysTerminates ==
    (openCalls = 1 /\ ~Running) =>
        /\ Unreturned = 0
        /\ result # Pending
        /\ stage \in {"upload", "done"}
        /\ stage = "done" <=> result = Nil

\* C19: no worker holds an open file handle once its read of a part has
\* ended in a seek error, a read error or a successful read: none during
\* a PUT, none after a worker returned, none when the barrier is passed.
\* (A handle stays open only in a process killed by a panic.)
C19_NoHandleLeak ==
    /\ openHandles \in {0, 1}
    /\ openHandles # 0 => stage = "panic"

C19_Witness ==
    /\ Err("seek", 0, 0) \in errs
    /\ Err("read", 1, 0) \in errs
    /\ BagIn(Worker("put", 2), pool)
    /\ openHandles = 0

====
